---- MODULE Spec2Model ----
(***************************************************************************)
(* Model of the PDF -> Markdown extraction service:                        *)
(*   extralit_ocr/extract.py  configuration, artifact namer, output        *)
(*                            writer, margin resolver, orchestrator        *)
(*   extralit_ocr/jobs.py     background job and its margin resolver       *)
(*   src/app.py               HTTP endpoints and their margin resolver     *)
(*   src/extralit_ocr/jobs.py legacy job margin resolver                   *)
(*                                                                         *)
(* Python values are encoded so that TLC can compare them:                 *)
(*   Optional[X]   a sequence of length 0 (None) or 1 (<<x>>)              *)
(*   str           a sequence of one-character strings                     *)
(*   dict          a function whose DOMAIN is the set of keys present      *)
(***************************************************************************)
EXTENDS Integers, Sequences, FiniteSets, TLC

\* ------------------------------------------------------------------ bounds
MaxCalls == 1
MaxJobs == 1
MaxWrites == 3
MaxClock == 1
MaxToc == 2

\* -------------------------------------------------------- program constants
StemMaxLen == 80
DefaultHashLen == 8
DefaultMaxLevels == 4
DefaultBodyLimit == 10

\* ------------------------------------------------------------------ helpers
None == <<>>
Some(v) == <<v>>
IsNone(o) == Len(o) = 0
Val(o) == o[1]

Min(a, b) == IF a <= b THEN a ELSE b

Take(s, n) == SubSeq(s, 1, Min(Len(s), n))

\* int(x) of a real x = n / d: Python truncates toward zero.
IntTrunc(n, d) == IF n >= 0 THEN n \div d ELSE -((-n) \div d)

RECURSIVE Join(_)
Join(parts) ==
    IF Len(parts) = 0 THEN <<>>
    ELSE IF Len(parts) = 1 THEN parts[1]
    ELSE parts[1] \o <<"-">> \o Join(Tail(parts))

\* ------------------------------------------------------------ ExtractionConfig
DefaultMargins == <<0, 50, 0, 30>>

ExtractionConfig(write_dir, write_mode, margins, ts, hash_len) ==
    [write_dir |-> write_dir,
     write_mode |-> write_mode,
     margins |-> margins,
     header_detection_max_levels |-> DefaultMaxLevels,
     header_detection_body_limit |-> DefaultBodyLimit,
     safe_filename_timestamp |-> ts,
     safe_filename_hash_len |-> hash_len]

\* create_default_config(): only write_dir and write_mode come from the environment.
create_default_config(env_dir, env_mode) ==
    ExtractionConfig(env_dir, env_mode, DefaultMargins, TRUE, DefaultHashLen)

\* ExtractionConfig(margins=margins): what the job and the HTTP handler build.
ConfigWithMargins(margins) ==
    ExtractionConfig(None, "overwrite", margins, TRUE, DefaultHashLen)

WriteDirs == {"out"}
WriteModes == {"overwrite", "skip"}
HashLens == {0, DefaultHashLen}

\* ------------------------------------------------------------- Artifact namer
NameAP == <<"a", ".", "p">>
NameAQ == <<"a", ".", "q">>
NameDocumentPdf == <<"d", "o", "c", "u", "m", "e", "n", "t", ".", "p", "d", "f">>
Filenames == {NameAP, NameAQ, NameDocumentPdf}
\* The names direct callers pass: two documents sharing a stem.
LibFilenames == {NameAP, NameAQ}

\* hashlib.sha1(name.encode("utf-8")).hexdigest() of the model's filenames.
Sha1Hex(name) ==
    CASE name = NameAP ->
           <<"d", "f", "f", "8", "6", "4", "f", "b", "4", "1", "e", "f", "3", "1",
             "c", "2", "9", "a", "0", "f", "3", "3", "9", "1", "1", "5", "c", "8",
             "b", "4", "3", "6", "4", "c", "9", "8", "b", "0", "5", "9">>
      [] name = NameAQ ->
           <<"3", "e", "c", "0", "6", "e", "f", "3", "f", "e", "c", "c", "6", "e",
             "c", "8", "c", "b", "2", "b", "9", "5", "d", "4", "8", "5", "8", "9",
             "4", "6", "f", "7", "0", "d", "e", "f", "0", "3", "c", "6">>
      [] name = NameDocumentPdf ->
           <<"0", "b", "a", "2", "1", "4", "1", "b", "8", "9", "9", "6", "a", "6",
             "1", "5", "d", "7", "4", "8", "4", "5", "3", "6", "d", "7", "a", "9",
             "7", "c", "2", "7", "a", "1", "7", "6", "8", "4", "0", "7">>

\* Index of the last "." of s, 0 when there is none (str.rfind, 1-based).
LastDot(s) ==
    LET dots == {i \in 1..Len(s) : s[i] = "."}
    IN  IF dots = {} THEN 0 ELSE CHOOSE i \in dots : \A j \in dots : j <= i

\* Path(name).stem: the name without its last suffix; a leading or a trailing
\* dot starts no suffix.
Stem(s) ==
    IF LastDot(s) > 1 /\ LastDot(s) < Len(s) THEN SubSeq(s, 1, LastDot(s) - 1) ELSE s

\* str(int(time.time())) for the model's small clock values.
Digits == <<"0", "1", "2", "3", "4", "5", "6", "7", "8", "9">>

RECURSIVE IntToStr(_)
IntToStr(n) ==
    IF n < 10 THEN <<Digits[n + 1]>> ELSE IntToStr(n \div 10) \o <<Digits[(n % 10) + 1]>>

generate_safe_filename_stamped(original_name, include_timestamp, hash_len, now) ==
    LET truncated == Take(Stem(original_name), StemMaxLen)
        stem == IF Len(truncated) = 0
                THEN <<"d", "o", "c", "u", "m", "e", "n", "t">> ELSE truncated
        digest == IF hash_len > 0 THEN <<Take(Sha1Hex(original_name), hash_len)>> ELSE <<>>
    IN  Join(<<stem>> \o digest \o <<IntToStr(now)>>) \o <<".", "m", "d">>
generate_safe_filename(original_name, include_timestamp, hash_len, now) ==
    LET truncated == Take(Stem(original_name), StemMaxLen)
        stem == IF Len(truncated) = 0
                THEN <<"d", "o", "c", "u", "m", "e", "n", "t">> ELSE truncated
        digest == IF hash_len > 0 THEN <<Take(Sha1Hex(original_name), hash_len)>> ELSE <<>>
        stamp == IF include_timestamp THEN <<IntToStr(now)>> ELSE <<>>
    IN  Join(<<stem>> \o digest \o stamp) \o <<".", "m", "d">>

\* write_dir / generate_safe_filename(...)
OutPath(write_dir, config, original_filename, now) ==
    <<write_dir>>
      \o <<"/">>
      \o generate_safe_filename(original_filename,
                                config.safe_filename_timestamp,
                                config.safe_filename_hash_len,
                                now)

\* ------------------------------------------------- stored document metadata
PxKeys == {"left_px", "top_px", "right_px", "bottom_px"}

PxRecord(l, t, r, b) == [left_px |-> l, top_px |-> t, right_px |-> r, bottom_px |-> b]

\* Pixel records the layout analysis may have stored; a value of None is a
\* malformed (non-numeric) entry.
FullPx ==
    {PxRecord(Some(100), Some(200), Some(50), Some(80)),
     PxRecord(Some(-7), Some(3), Some(1), Some(0)),
     PxRecord(None, Some(200), Some(50), Some(80))}

Restrict(d, keys) == [k \in keys |-> d[k]]

\* Every dict holding some of the four pixel fields.
PxDicts == {Restrict(d, keys) : d \in FullPx, keys \in SUBSET PxKeys}

EstimatedChoices == {None, Some(PxRecord(Some(100), Some(200), Some(50), Some(80)))}

\* margin_analysis: a dict with the pixel fields at its top level (px) and,
\* in the layout the HTTP service reads, an "estimated_margins" sub-dict.
MarginAnalyses == [px : PxDicts, estimated_margins : EstimatedChoices]

LayoutAnalyses ==
    [margin_analysis : {None} \cup {Some(ma) : ma \in MarginAnalyses},
     estimated_margins : EstimatedChoices]

AnalysisMetadatas == [layout_analysis : {None} \cup {Some(la) : la \in LayoutAnalyses}]

\* text_extraction_metadata is what the job adds; stored records start without it.
DocumentProcessingMetadatas ==
    [analysis_metadata : {None} \cup {Some(am) : am \in AnalysisMetadatas},
     text_extraction_metadata : {None}]

\* DocumentProcessingMetadata(): every link absent.
EmptyMetadata == [analysis_metadata |-> None, text_extraction_metadata |-> None]

\* bool(margin_analysis) of a dict: false when it has no key at all.
DictIsEmpty(ma) == DOMAIN ma.px = {} /\ IsNone(ma.estimated_margins)

PxComplete(d) == PxKeys \subseteq DOMAIN d
PxNumeric(d) == \A k \in PxKeys : ~IsNone(d[k])

\* ------------------------------------------------------------ margin resolvers
\* The outcome of a resolver body: a returned Optional tuple, or an exception.
Returned(v) == [raised |-> FALSE, value |-> v]
Raised == [raised |-> TRUE, value |-> None]

\* except Exception: log a warning, fall through to "return None".
CatchAll(outcome) == IF outcome.raised THEN Returned(None) ELSE outcome

\* int(px * 0.75)
ScalePx(px) == IntTrunc(px * 3, 4)

\* int(px)
RawPx(px) == px

ScaledTuple(d) ==
    <<ScalePx(Val(d["left_px"])), ScalePx(Val(d["top_px"])),
      ScalePx(Val(d["right_px"])), ScalePx(Val(d["bottom_px"]))>>

RawTuple(d) ==
    <<RawPx(Val(d["left_px"])), RawPx(Val(d["top_px"])),
      RawPx(Val(d["right_px"])), RawPx(Val(d["bottom_px"]))>>

\* The three links analysis_metadata -> layout_analysis -> margin_analysis.
LinksPresent(metadata) ==
    /\ ~IsNone(metadata.analysis_metadata)
    /\ ~IsNone(Val(metadata.analysis_metadata).layout_analysis)
    /\ ~IsNone(Val(Val(metadata.analysis_metadata).layout_analysis).margin_analysis)
    /\ ~DictIsEmpty(Val(Val(Val(metadata.analysis_metadata).layout_analysis).margin_analysis))

MarginAnalysisOf(metadata) ==
    Val(Val(Val(metadata.analysis_metadata).layout_analysis).margin_analysis)

\* extralit_ocr/jobs.py: the body of the try block.
JobMarginsBody(metadata) ==
    IF ~LinksPresent(metadata) THEN Returned(None)
    ELSE LET margin_analysis == MarginAnalysisOf(metadata).px
         IN  IF PxComplete(margin_analysis)
             THEN IF PxNumeric(margin_analysis)
                  THEN Returned(Some(ScaledTuple(margin_analysis)))
                  ELSE Raised
             ELSE Returned(None)

_get_document_margins_uncaught(metadata) == JobMarginsBody(metadata)
_get_document_margins(metadata) == CatchAll(JobMarginsBody(metadata))

\* extralit_ocr/extract.py: the same traversal, the values taken as they are.
ExtractMarginsBody(metadata) ==
    IF ~LinksPresent(metadata) THEN Returned(None)
    ELSE LET margin_analysis == MarginAnalysisOf(metadata).px
         IN  IF PxComplete(margin_analysis)
             THEN IF PxNumeric(margin_analysis)
                  THEN Returned(Some(RawTuple(margin_analysis)))
                  ELSE Raised
             ELSE Returned(None)

extract_document_margins(metadata) == CatchAll(ExtractMarginsBody(metadata))

\* src/app.py: reads margin_analysis["estimated_margins"] of the stored dict;
\* `stored` is document.metadata_ (None: no document, or no metadata).
AppMarginsBody(stored) ==
    IF IsNone(stored) THEN Returned(None)
    ELSE IF ~LinksPresent(Val(stored)) THEN Returned(None)
    ELSE LET margin_analysis == MarginAnalysisOf(Val(stored))
         IN  IF IsNone(margin_analysis.estimated_margins) THEN Returned(None)
             ELSE LET estimated_margins == Val(margin_analysis.estimated_margins)
                  IN  IF PxComplete(estimated_margins)
                      THEN IF PxNumeric(estimated_margins)
                           THEN Returned(Some(ScaledTuple(estimated_margins)))
                           ELSE Raised
                      ELSE Returned(None)

get_document_margins(stored) == CatchAll(AppMarginsBody(stored))

\* src/extralit_ocr/jobs.py (legacy job): reads layout_analysis["estimated_margins"].
LegacyMarginsBody(stored) ==
    IF IsNone(stored) THEN Returned(None)
    ELSE IF IsNone(Val(stored).analysis_metadata) THEN Returned(None)
    ELSE IF IsNone(Val(Val(stored).analysis_metadata).layout_analysis) THEN Returned(None)
    ELSE LET layout_analysis == Val(Val(Val(stored).analysis_metadata).layout_analysis)
         IN  IF IsNone(layout_analysis.estimated_margins) THEN Returned(None)
             ELSE LET estimated_margins == Val(layout_analysis.estimated_margins)
                  IN  IF PxComplete(estimated_margins)
                      THEN IF PxNumeric(estimated_margins)
                           THEN Returned(Some(ScaledTuple(estimated_margins)))
                           ELSE Raised
                      ELSE Returned(None)

legacy_get_document_margins(stored) == CatchAll(LegacyMarginsBody(stored))

\* ------------------------------------------------------------------ inputs
\* A TOC entry is [level, title, page_num].
Levels == {1, 2}
TocEntries == {<<l, "title", 1>> : l \in Levels}
TocLists == UNION {[1..n -> TocEntries] : n \in 0..MaxToc}

\* What doc.get_toc() may return: None, or a list of entries.
Tocs == {None} \cup {Some(t) : t \in TocLists}

\* The uploaded bytes: empty, not a PDF, or a PDF with its TOC and page count.
EmptyBytes == [kind |-> "empty", toc |-> None, page_count |-> 0]
GarbageBytes == [kind |-> "garbage", toc |-> None, page_count |-> 0]
PdfBytes == {[kind |-> "pdf", toc |-> t, page_count |-> 1] : t \in Tocs}
FileBytes == {EmptyBytes, GarbageBytes} \cup PdfBytes

\* Markdown the renderer may return.
Texts == {<<"x">>, <<"y", "y">>}

\* Configurations a caller of the library may pass: every naming option with
\* an output directory, and both write modes without one.
Configs ==
    {ExtractionConfig(Some(d), m, DefaultMargins, ts, h) :
        d \in WriteDirs, m \in WriteModes, ts \in BOOLEAN, h \in HashLens}
      \cup {ExtractionConfig(None, m, DefaultMargins, TRUE, DefaultHashLen) :
              m \in WriteModes}

DefaultConfigs ==
    {create_default_config(d, m) :
        d \in {None} \cup {Some(w) : w \in WriteDirs}, m \in WriteModes}

\* ------------------------------------------------------------------- state
VARIABLES
    fs,              \* the output directories: path -> file content
    clock,           \* int(time.time())
    default_config,  \* _DEFAULT_CONFIG, built once at import
    calls,           \* entry-point calls started so far
    entry,           \* the entry point that is running
    pc,              \* the statement the running call is at
    ex,              \* frame of extract_markdown_with_hierarchy
    wr,              \* frame of write_markdown_output
    req,             \* frame of the HTTP handler
    job,             \* frame of pymupdf_to_markdown_job
    db,              \* the document store (committed state)
    events,          \* history: the library and disk calls of the running call
    wlog,            \* history: the completed direct write_markdown_output calls
    conc             \* concurrent callers of write_markdown_output: their frames

vars ==
    <<fs, clock, default_config, calls, entry, pc, ex, wr, req, job, db, events, wlog,
      conc>>

\* ----------------------------------------------------------------- exceptions
Exc(type, msg) == [type |-> type, msg |-> msg]

EmptyPdfError == Exc("ValueError", "Empty PDF content")
OpenError == Exc("ValueError", "Failed to open PDF")
ConversionError == Exc("ValueError", "Markdown conversion failed")
\* What pymupdf raises out of doc.get_toc(), as it is.
LibraryError == Exc("RuntimeError", "get_toc failed")
\* What Path.write_text raises (permission, disk full), as it is.
WriteOSError == Exc("OSError", "write failed")
\* What UploadFile.read raises.
UploadError == Exc("Exception", "upload read failed")

\* ------------------------------------------------------------------- frames
IdleEx ==
    [file_bytes |-> EmptyBytes, original_filename |-> NameDocumentPdf,
     config |-> None, cfg |-> None, doc |-> None, toc |-> None,
     toc_entry_count |-> 0, headers_strategy |-> "",
     header_levels_detected |-> None, md_text |-> <<>>,
     write_path |-> None, called |-> FALSE, fs_entry |-> <<>>,
     returned |-> None, raised |-> None]

IdleWr ==
    [markdown_text |-> <<>>, original_filename |-> NameDocumentPdf,
     config |-> None, now |-> None, out_path |-> None, existed |-> FALSE,
     wrote |-> FALSE,
     returned |-> None, raised |-> None, done |-> FALSE]

IdleMeta ==
    [started |-> FALSE, success |-> None, status |-> None, error |-> None,
     text_length |-> None]

IdleJob ==
    [current_job |-> FALSE, meta |-> IdleMeta, s3 |-> EmptyBytes,
     filename |-> NameDocumentPdf, pdf_data |-> EmptyBytes,
     document |-> None, metadata |-> EmptyMetadata, margins |-> None,
     result |-> None, pending |-> None, returned |-> FALSE, raised |-> None,
     steps |-> <<>>, db_entry |-> None]

\* Two callers of write_markdown_output running at once (worker processes or
\* threads) over one output directory.
Callers == {1, 2}

IdleConc == [w \in Callers |-> [pc |-> "idle", wr |-> IdleWr, replaced |-> None]]

IdleReq == [margins |-> None, filename |-> None, status |-> 0, raised |-> None]

\* An extract_markdown_with_hierarchy call begins with these arguments.
EnterExtract(file_bytes, original_filename, config) ==
    ex' = [IdleEx EXCEPT !.file_bytes = file_bytes,
                         !.original_filename = original_filename,
                         !.config = config,
                         !.called = TRUE,
                         !.fs_entry = fs]

\* Where control goes when extract_markdown_with_hierarchy raises.
RaiseSite ==
    CASE entry = "job" -> "job_except"
      [] entry = "legacy_job" -> "legacy_except"
      [] OTHER -> "http_except"

\* Where control goes when it returns.
ReturnSite ==
    CASE entry = "job" -> "job_update"
      [] entry = "legacy_job" -> "legacy_result"
      [] OTHER -> "http_reply"

ExtractRaises(e) ==
    /\ ex' = [ex EXCEPT !.raised = Some(e)]
    /\ pc' = RaiseSite

\* ------------------------------------------- extract_markdown_with_hierarchy
Cfg == Val(ex.cfg)

\* not file_bytes
IsEmptyInputNever(file_bytes) == FALSE
IsEmptyInput(file_bytes) == file_bytes.kind = "empty"

\* if not file_bytes: raise ValueError; cfg = config or _DEFAULT_CONFIG
ExtractCheck ==
    /\ pc = "x_check"
    /\ IF IsEmptyInput(ex.file_bytes)
       THEN ExtractRaises(EmptyPdfError)
       ELSE /\ ex' = [ex EXCEPT !.cfg = IF IsNone(ex.config)
                                        THEN Some(default_config) ELSE ex.config]
            /\ pc' = "x_open"
    /\ UNCHANGED <<fs, clock, default_config, calls, entry, wr, req, job, db, events, wlog, conc>>

\* doc = pymupdf.open(stream=file_bytes), any failure wrapped in ValueError
ExtractOpen ==
    /\ pc = "x_open"
    /\ events' = Append(events, "open")
    /\ IF ex.file_bytes.kind # "pdf"
       THEN ExtractRaises(OpenError)
       ELSE /\ ex' = [ex EXCEPT !.doc = Some(ex.file_bytes)]
            /\ pc' = "x_toc"
    /\ UNCHANGED <<fs, clock, default_config, calls, entry, wr, req, job, db, wlog, conc>>

\* len(toc) if toc else 0
TocEntryCount(toc) == IF IsNone(toc) THEN 0 ELSE Len(Val(toc))

\* toc = doc.get_toc(); toc_entry_count = ...  (outside every try block)
ExtractGetToc ==
    /\ pc = "x_toc"
    /\ events' = Append(events, "get_toc")
    /\ \/ ExtractRaises(LibraryError)
       \/ /\ ex' = [ex EXCEPT !.toc = Val(ex.doc).toc,
                              !.toc_entry_count = TocEntryCount(Val(ex.doc).toc)]
          /\ pc' = "x_render"
    /\ UNCHANGED <<fs, clock, default_config, calls, entry, wr, req, job, db, wlog, conc>>

\* if toc_entry_count > 0: "toc" else: "identify"
SelectStrategyOffByOne(toc_entry_count) == IF toc_entry_count > 1 THEN "toc" ELSE "identify"
SelectStrategy(toc_entry_count) == IF toc_entry_count > 0 THEN "toc" ELSE "identify"

\* The heading-hint constructor of a strategy.
HintsOf(strategy) == IF strategy = "toc" THEN "TocHeaders" ELSE "IdentifyHeaders"

\* len({level for level, _, _ in toc})
DistinctLevels(toc) == Cardinality({Val(toc)[i][1] : i \in 1..Len(Val(toc))})

\* What identified.headers may expose: nothing (None), or a level count.
IdentifiedLevels == {None, Some(1)}

OtherStrategy(strategy) == IF strategy = "toc" THEN "identify" ELSE "toc"

\* except Exception as e: raise ValueError(...): the library calls made when
\* the try block is left by an exception are the ones made so far.
RenderFailureRetry(strategy, trace) ==
    trace \o <<HintsOf(OtherStrategy(strategy)), "to_markdown">>
RenderFailure(strategy, trace) == trace

\* The try block: build the hints, render once; any exception becomes
\* ValueError("Markdown conversion failed"). On success the writer is called.
ExtractRender ==
    /\ pc = "x_render"
    /\ LET strategy == SelectStrategy(ex.toc_entry_count)
           hinted == Append(events, HintsOf(strategy))
           rendered == Append(hinted, "to_markdown")
       IN  \/ /\ ExtractRaises(ConversionError)
              /\ events' = RenderFailure(strategy, hinted)
              /\ wr' = wr
           \/ /\ ExtractRaises(ConversionError)
              /\ events' = RenderFailure(strategy, rendered)
              /\ wr' = wr
           \/ \E md_text \in Texts, identified \in IdentifiedLevels :
                /\ ex' = [ex EXCEPT
                            !.headers_strategy = strategy,
                            !.md_text = md_text,
                            !.header_levels_detected =
                                IF strategy = "toc" THEN Some(DistinctLevels(ex.toc))
                                ELSE identified]
                /\ events' = rendered
                /\ wr' = [IdleWr EXCEPT !.markdown_text = md_text,
                                        !.original_filename = ex.original_filename,
                                        !.config = ex.cfg]
                /\ pc' = "w_start"
    /\ UNCHANGED <<fs, clock, default_config, calls, entry, req, job, db, wlog, conc>>

\* ------------------------------------------------------ write_markdown_output
WriterDone == IF entry = "write" THEN "w_done" ELSE "x_assemble"

\* config.write_dir_path
write_dir_path_fallback(config) ==
    IF IsNone(config.write_dir) THEN Some("out") ELSE config.write_dir
write_dir_path(config) == config.write_dir

\* write_dir = config.write_dir_path; if not write_dir: return None;
\* out_path = write_dir / generate_safe_filename(...), which reads time.time()
WriteStart ==
    /\ pc = "w_start"
    /\ IF IsNone(write_dir_path(Val(wr.config)))
       THEN /\ wr' = [wr EXCEPT !.returned = None, !.done = TRUE]
            /\ pc' = WriterDone
       ELSE /\ wr' = [wr EXCEPT !.now = Some(clock),
                                !.out_path =
                                   Some(OutPath(Val(write_dir_path(Val(wr.config))),
                                                Val(wr.config), wr.original_filename, clock))]
            /\ pc' = "w_exists"
    /\ UNCHANGED <<fs, clock, default_config, calls, entry, ex, req, job, db, events, wlog, conc>>

\* out_path.exists() and config.write_mode == "skip"
SkipsWriteNever(exists, write_mode) == FALSE
SkipsWrite(exists, write_mode) == exists /\ write_mode = "skip"

WriteExists ==
    /\ pc = "w_exists"
    /\ LET exists == Val(wr.out_path) \in DOMAIN fs
       IN  IF SkipsWrite(exists, Val(wr.config).write_mode)
           THEN /\ wr' = [wr EXCEPT !.existed = exists,
                                    !.returned = wr.out_path, !.done = TRUE]
                /\ pc' = WriterDone
           ELSE /\ wr' = [wr EXCEPT !.existed = exists]
                /\ pc' = "w_text"
    /\ UNCHANGED <<fs, clock, default_config, calls, entry, ex, req, job, db, events, wlog, conc>>

\* Path.write_text: the file holds exactly the text afterwards.
WriteFileIfAbsent(files, path, text) ==
    [p \in DOMAIN files \cup {path} |-> IF p \in DOMAIN files THEN files[p] ELSE text]
WriteFile(files, path, text) ==
    [p \in DOMAIN files \cup {path} |-> IF p = path THEN text ELSE files[p]]

\* out_path.write_text(markdown_text); return str(out_path)
WriteText ==
    /\ pc = "w_text"
    /\ events' = Append(events, "write_text")
    /\ \/ /\ wr' = [wr EXCEPT !.raised = Some(WriteOSError), !.done = TRUE]
          /\ fs' = fs
       \/ /\ fs' = WriteFile(fs, Val(wr.out_path), wr.markdown_text)
          /\ wr' = [wr EXCEPT !.returned = wr.out_path, !.wrote = TRUE, !.done = TRUE]
    /\ pc' = WriterDone
    /\ UNCHANGED <<clock, default_config, calls, entry, ex, req, job, db, wlog, conc>>

\* write_path = write_markdown_output(...) outside every try block, then the
\* metadata dict and the return.
ExtractAssemble ==
    /\ pc = "x_assemble"
    /\ IF ~IsNone(wr.raised)
       THEN ExtractRaises(Val(wr.raised))
       ELSE /\ ex' = [ex EXCEPT
                        !.write_path = wr.returned,
                        !.returned = Some(
                            [markdown |-> ex.md_text,
                             metadata |->
                               [pages |-> Val(ex.doc).page_count,
                                toc_entries |-> ex.toc_entry_count,
                                headers_strategy |-> ex.headers_strategy,
                                header_levels_detected |-> ex.header_levels_detected,
                                margins |-> Cfg.margins,
                                output_path |-> wr.returned,
                                output_size_chars |-> Len(ex.md_text)]])]
            /\ pc' = ReturnSite
    /\ UNCHANGED <<fs, clock, default_config, calls, entry, wr, req, job, db, events, wlog, conc>>


\* ---------------------------------------------------------------- src/app.py
CanStart == pc \in {"idle", "done"} /\ calls < MaxCalls

\* pdf.filename or "document.pdf"
HttpFilenames == {None, Some(NameAP)}
FilenameOr(filename) == IF IsNone(filename) THEN NameDocumentPdf ELSE Val(filename)

\* POST /extract: read the upload, call the orchestrator with the default config.
HttpExtract ==
    /\ CanStart
    /\ calls' = calls + 1
    /\ entry' = "extract"
    /\ events' = <<>>
    /\ wr' = IdleWr
    /\ \E filename \in HttpFilenames :
         \/ /\ req' = [IdleReq EXCEPT !.filename = filename, !.raised = Some(UploadError)]
            /\ ex' = IdleEx
            /\ pc' = "http_except"
         \/ \E file_bytes \in FileBytes :
              /\ req' = [IdleReq EXCEPT !.filename = filename]
              /\ EnterExtract(file_bytes, FilenameOr(filename), None)
              /\ pc' = "x_check"
    /\ UNCHANGED <<fs, clock, default_config, job, db, wlog, conc>>

\* The document metadata the HTTP service may find stored for an id.
StoredMetadatas == {None} \cup {Some(m) : m \in DocumentProcessingMetadatas}

\* POST /extract_with_document/{id}: margins = get_document_margins(id);
\* config = ExtractionConfig(margins=margins) if margins else None
HttpExtractWithDocument ==
    /\ CanStart
    /\ calls' = calls + 1
    /\ entry' = "extract_with_document"
    /\ events' = <<>>
    /\ wr' = IdleWr
    /\ \E filename \in HttpFilenames :
         \/ /\ req' = [IdleReq EXCEPT !.filename = filename, !.raised = Some(UploadError)]
            /\ ex' = IdleEx
            /\ pc' = "http_except"
         \/ \E file_bytes \in FileBytes,
               margins \in {get_document_margins(stored) : stored \in StoredMetadatas} :
                  IF margins.raised
                  THEN /\ req' = [IdleReq EXCEPT !.filename = filename,
                                                 !.raised = Some(Exc("TypeError", "margins"))]
                       /\ ex' = IdleEx
                       /\ pc' = "http_except"
                  ELSE /\ req' = [IdleReq EXCEPT !.filename = filename,
                                                 !.margins = margins.value]
                       /\ EnterExtract(file_bytes, FilenameOr(filename),
                                       IF IsNone(margins.value) THEN None
                                       ELSE Some(ConfigWithMargins(Val(margins.value))))
                       /\ pc' = "x_check"
    /\ UNCHANGED <<fs, clock, default_config, job, db, wlog, conc>>

\* except ValueError: 400; except Exception: 500
StatusFor(e) == IF e.type = "ValueError" THEN 400 ELSE 500

\* The exception that reached the handler's try block.
Caught == IF ~IsNone(req.raised) THEN Val(req.raised) ELSE Val(ex.raised)

HttpExcept ==
    /\ pc = "http_except"
    /\ req' = [req EXCEPT !.status = StatusFor(Caught)]
    /\ pc' = "done"
    /\ UNCHANGED <<fs, clock, default_config, calls, entry, ex, wr, job, db, events, wlog, conc>>

\* return JSONResponse({...})
HttpReply ==
    /\ pc = "http_reply"
    /\ req' = [req EXCEPT !.status = 200]
    /\ pc' = "done"
    /\ UNCHANGED <<fs, clock, default_config, calls, entry, ex, wr, job, db, events, wlog, conc>>

\* ------------------------------------------------------- direct library calls
\* A caller of write_markdown_output. The caller holds one configuration for
\* its run, as the service holds _DEFAULT_CONFIG: every call passes the
\* configuration the first call passed.
WriteCall ==
    /\ pc \in {"idle", "done"}
    /\ Len(wlog) < MaxWrites
    /\ entry' = "write"
    /\ events' = <<>>
    /\ \E markdown_text \in Texts, filename \in LibFilenames,
          config \in IF wlog = <<>> THEN Configs ELSE {wlog[1].config} :
         wr' = [IdleWr EXCEPT !.markdown_text = markdown_text,
                              !.original_filename = filename,
                              !.config = Some(config)]
    /\ pc' = "w_start"
    /\ UNCHANGED <<fs, clock, default_config, calls, ex, req, job, db, wlog, conc>>

\* The file a path holds, None when there is no file.
Content(files, path) == IF path \in DOMAIN files THEN Some(files[path]) ELSE None

\* The caller has the call's outcome; the history keeps it with what the
\* resolved path holds now.
WriteReturn ==
    /\ pc = "w_done"
    /\ wlog' = Append(wlog,
                      [config |-> Val(wr.config),
                       original_filename |-> wr.original_filename,
                       markdown_text |-> wr.markdown_text,
                       now |-> wr.now,
                       out_path |-> wr.out_path,
                       existed |-> wr.existed,
                       wrote |-> wr.wrote,
                       returned |-> wr.returned,
                       raised |-> ~IsNone(wr.raised),
                       content |-> IF IsNone(wr.out_path) THEN None
                                   ELSE Content(fs, Val(wr.out_path))])
    /\ pc' = "done"
    /\ UNCHANGED <<fs, clock, default_config, calls, entry, ex, wr, req, job, db, events, conc>>

\* time.time() advances. The clock is read only where the writer computes
\* its path, so a tick inside a call is taken either right before that read
\* or after the call.
Tick ==
    /\ pc \in {"idle", "done", "w_start"}
    /\ clock < MaxClock
    /\ clock' = clock + 1
    /\ UNCHANGED <<fs, default_config, calls, entry, pc, ex, wr, req, job, db, events, wlog, conc>>

\* ------------------------------------------------- concurrent library calls
\* The configurations a concurrent caller may pass: the callers share their
\* environment, so a later caller passes what the first one passed.
ConcConfigs ==
    IF \A w \in Callers : conc[w].pc = "idle" THEN Configs
    ELSE {Val(conc[w].wr.config) : w \in {v \in Callers : conc[v].pc # "idle"}}

\* Caller w enters write_markdown_output.
ConcCall(w) ==
    /\ conc[w].pc = "idle"
    /\ \E markdown_text \in Texts, filename \in LibFilenames, config \in ConcConfigs :
         conc' = [conc EXCEPT ![w].pc = "w_start",
                              ![w].wr = [IdleWr EXCEPT !.markdown_text = markdown_text,
                                                       !.original_filename = filename,
                                                       !.config = Some(config)]]
    /\ UNCHANGED <<fs, clock, default_config, calls, entry, pc, ex, wr, req, job, db, events, wlog>>

\* write_dir = config.write_dir_path; if not write_dir: return None;
\* out_path = write_dir / generate_safe_filename(...)
ConcStart(w) ==
    /\ conc[w].pc = "w_start"
    /\ LET f == conc[w].wr
       IN  IF IsNone(write_dir_path(Val(f.config)))
           THEN conc' = [conc EXCEPT ![w].pc = "done",
                                     ![w].wr = [f EXCEPT !.returned = None, !.done = TRUE]]
           ELSE conc' = [conc EXCEPT
                           ![w].pc = "w_exists",
                           ![w].wr = [f EXCEPT
                               !.now = Some(clock),
                               !.out_path =
                                   Some(OutPath(Val(write_dir_path(Val(f.config))),
                                                Val(f.config), f.original_filename, clock))]]
    /\ UNCHANGED <<fs, clock, default_config, calls, entry, pc, ex, wr, req, job, db, events, wlog>>

\* if out_path.exists() and config.write_mode == "skip": return str(out_path)
ConcExists(w) ==
    /\ conc[w].pc = "w_exists"
    /\ LET f == conc[w].wr
           exists == Val(f.out_path) \in DOMAIN fs
       IN  IF SkipsWrite(exists, Val(f.config).write_mode)
           THEN conc' = [conc EXCEPT ![w].pc = "done",
                                     ![w].wr = [f EXCEPT !.existed = exists,
                                                         !.returned = f.out_path,
                                                         !.done = TRUE]]
           ELSE conc' = [conc EXCEPT ![w].pc = "w_text",
                                     ![w].wr = [f EXCEPT !.existed = exists]]
    /\ UNCHANGED <<fs, clock, default_config, calls, entry, pc, ex, wr, req, job, db, events, wlog>>

\* out_path.write_text(markdown_text); return str(out_path). The frame keeps
\* what the path held when the write began.
ConcText(w) ==
    /\ conc[w].pc = "w_text"
    /\ LET f == conc[w].wr
       IN  \/ /\ conc' = [conc EXCEPT ![w].pc = "done",
                                       ![w].wr = [f EXCEPT !.raised = Some(WriteOSError),
                                                           !.done = TRUE]]
              /\ fs' = fs
           \/ /\ fs' = WriteFile(fs, Val(f.out_path), f.markdown_text)
              /\ conc' = [conc EXCEPT ![w].pc = "done",
                                       ![w].replaced = Content(fs, Val(f.out_path)),
                                       ![w].wr = [f EXCEPT !.returned = f.out_path,
                                                           !.wrote = TRUE,
                                                           !.done = TRUE]]
    /\ UNCHANGED <<clock, default_config, calls, entry, pc, ex, wr, req, job, db, events, wlog>>

\* ------------------------------------------------------- extralit_ocr/jobs.py
NoJobError == Exc("Exception", "No current job found")
StorageClientError == Exc("Exception", "Failed to get storage client")
DownloadError == Exc("Exception", "download failed")
NotFoundError == Exc("Exception", "Document not found in database")
CommitError == Exc("Exception", "commit failed")

\* The document store: no document, a document without metadata, or one
\* with a stored metadata record.
Stores ==
    {None, Some([metadata_ |-> None])}
      \cup {Some([metadata_ |-> Some(m)]) : m \in DocumentProcessingMetadatas}

\* What the s3_url of a job may hold: nothing, not a PDF, a PDF without a
\* TOC, a PDF with a TOC of one entry.
JobFiles ==
    {EmptyBytes, GarbageBytes,
     [kind |-> "pdf", toc |-> None, page_count |-> 1],
     [kind |-> "pdf", toc |-> Some(<<<<1, "title", 1>>>>), page_count |-> 1]}

\* current_job = get_current_job(); without one the job raises at once,
\* otherwise it saves the start of the run into the job's meta.
JobStart ==
    /\ pc \in {"idle", "done"}
    /\ calls < MaxJobs
    /\ calls' = calls + 1
    /\ entry' = "job"
    /\ events' = <<>>
    /\ ex' = IdleEx
    /\ wr' = IdleWr
    /\ \E current_job \in BOOLEAN, s3 \in JobFiles :
         IF ~current_job
         THEN /\ job' = [IdleJob EXCEPT !.raised = Some(NoJobError),
                                        !.db_entry = db]
              /\ pc' = "done"
         ELSE /\ job' = [IdleJob EXCEPT !.current_job = TRUE,
                                        !.db_entry = db,
                                        !.s3 = s3,
                                        !.filename = NameAP,
                                        !.meta = [IdleMeta EXCEPT !.started = TRUE]]
              /\ pc' = "job_download"
    /\ UNCHANGED <<fs, clock, default_config, req, db, wlog, conc>>

\* client = await get_s3_client(); pdf_data = await download_file_content(...)
JobDownload ==
    /\ pc = "job_download"
    /\ \/ /\ job' = [job EXCEPT !.pending = Some(StorageClientError),
                                 !.steps = Append(@, "get_s3_client")]
          /\ pc' = "job_except"
       \/ /\ job' = [job EXCEPT !.pending = Some(DownloadError),
                                 !.steps = @ \o <<"get_s3_client", "download_file_content">>]
          /\ pc' = "job_except"
       \/ /\ job' = [job EXCEPT !.pdf_data = job.s3,
                                 !.steps = @ \o <<"get_s3_client", "download_file_content">>]
          /\ pc' = "job_load"
    /\ UNCHANGED <<fs, clock, default_config, calls, entry, ex, wr, req, db, events, wlog, conc>>

\* config = ExtractionConfig(margins=margins) if margins else ExtractionConfig()
JobConfig(margins) ==
    IF IsNone(margins) THEN ConfigWithMargins(DefaultMargins)
    ELSE ConfigWithMargins(Val(margins))

\* document = await db.get(...); metadata; margins; config; then the
\* orchestrator is called.
JobLoad ==
    /\ pc = "job_load"
    /\ IF IsNone(db)
       THEN /\ job' = [job EXCEPT !.pending = Some(NotFoundError),
                                   !.steps = Append(@, "db.get")]
            /\ pc' = "job_except"
            /\ ex' = ex
       ELSE LET metadata == IF IsNone(Val(db).metadata_) THEN EmptyMetadata
                            ELSE Val(Val(db).metadata_)
                margins == _get_document_margins(metadata)
            IN  IF margins.raised
                THEN /\ job' = [job EXCEPT !.document = db, !.metadata = metadata,
                                           !.pending = Some(Exc("TypeError", "margins")),
                                           !.steps = Append(@, "db.get")]
                     /\ pc' = "job_except"
                     /\ ex' = ex
                ELSE /\ job' = [job EXCEPT !.document = db, !.metadata = metadata,
                                           !.margins = margins.value,
                                           !.steps = @ \o <<"db.get",
                                                "extract_markdown_with_hierarchy">>]
                     /\ EnterExtract(job.pdf_data, job.filename,
                                     Some(JobConfig(margins.value)))
                     /\ pc' = "x_check"
    /\ UNCHANGED <<fs, clock, default_config, calls, entry, wr, req, db, events, wlog, conc>>

\* result = {...}; metadata.text_extraction_metadata = ...;
\* document.metadata_ = metadata.model_dump(); await db.commit()
JobUpdateUncommitted ==
    /\ pc = "job_update"
    /\ LET markdown == Val(ex.returned).markdown
           updated == [job.metadata EXCEPT !.text_extraction_metadata = Some(markdown)]
       IN  /\ job' = [job EXCEPT !.metadata = updated,
                                 !.result = ex.returned,
                                 !.steps = Append(@, "db.commit")]
           /\ \/ db' = db
              \/ db' = Some([metadata_ |-> Some(updated)])
           /\ pc' = "job_finish"
    /\ UNCHANGED <<fs, clock, default_config, calls, entry, ex, wr, req, events, wlog, conc>>
JobUpdate ==
    /\ pc = "job_update"
    /\ LET markdown == Val(ex.returned).markdown
           updated == [job.metadata EXCEPT !.text_extraction_metadata = Some(markdown)]
       IN  \/ /\ job' = [job EXCEPT !.metadata = updated,
                                    !.result = ex.returned,
                                    !.pending = Some(CommitError),
                                    !.steps = Append(@, "db.commit")]
              /\ db' = db
              /\ pc' = "job_except"
           \/ /\ job' = [job EXCEPT !.metadata = updated,
                                    !.document = Some([metadata_ |-> Some(updated)]),
                                    !.result = ex.returned,
                                    !.steps = Append(@, "db.commit")]
              /\ db' = Some([metadata_ |-> Some(updated)])
              /\ pc' = "job_finish"
    /\ UNCHANGED <<fs, clock, default_config, calls, entry, ex, wr, req, events, wlog, conc>>

\* current_job.meta.update({"success": True, ...}); save_meta(); return result
JobFinish ==
    /\ pc = "job_finish"
    /\ job' = [job EXCEPT !.meta.success = Some(TRUE),
                          !.meta.text_length = Some(Len(Val(job.result).markdown)),
                          !.returned = TRUE]
    /\ pc' = "done"
    /\ UNCHANGED <<fs, clock, default_config, calls, entry, ex, wr, req, db, events, wlog, conc>>

\* The exception that reached the job's except clause.
JobCaught == IF ~IsNone(job.pending) THEN Val(job.pending) ELSE Val(ex.raised)

\* except Exception as e:
\*     current_job.meta.update({"success": False, "error": str(e)}); save_meta()
JobExceptSilent ==
    /\ pc = "job_except"
    /\ job' = job
    /\ pc' = "job_raise"
    /\ UNCHANGED <<fs, clock, default_config, calls, entry, ex, wr, req, db, events, wlog, conc>>
JobExcept ==
    /\ pc = "job_except"
    /\ job' = [job EXCEPT !.meta.success = Some(FALSE),
                          !.meta.error = Some(JobCaught)]
    /\ pc' = "job_raise"
    /\ UNCHANGED <<fs, clock, default_config, calls, entry, ex, wr, req, db, events, wlog, conc>>

\*     raise
JobRaise ==
    /\ pc = "job_raise"
    /\ job' = [job EXCEPT !.raised = Some(JobCaught)]
    /\ pc' = "done"
    /\ UNCHANGED <<fs, clock, default_config, calls, entry, ex, wr, req, db, events, wlog, conc>>

\* --------------------------------------- src/extralit_ocr/jobs.py (legacy job)
NoServerError == Exc("RuntimeError", "S3 operations require extralit_server components")
LegacyDownloadError == Exc("RuntimeError", "Failed to download file from S3")
\* RuntimeError(error_msg) from e
LegacyJobError == Exc("RuntimeError", "Failed to extract markdown from document")

\* job = get_current_job(); if job: job.meta.update({...}); job.save_meta()
LegacyJobStart ==
    /\ pc \in {"idle", "done"}
    /\ calls < MaxJobs
    /\ calls' = calls + 1
    /\ entry' = "legacy_job"
    /\ events' = <<>>
    /\ ex' = IdleEx
    /\ wr' = IdleWr
    /\ \E current_job \in BOOLEAN, s3 \in JobFiles :
         job' = [IdleJob EXCEPT !.current_job = current_job,
                                !.db_entry = db,
                                !.s3 = s3,
                                !.filename = NameAP,
                                !.meta = [IdleMeta EXCEPT !.started = current_job]]
    /\ pc' = "legacy_download"
    /\ UNCHANGED <<fs, clock, default_config, req, db, wlog, conc>>

\* pdf_data = asyncio.run(_download_file_from_s3(s3_url))
LegacyJobDownload ==
    /\ pc = "legacy_download"
    /\ \/ /\ job' = [job EXCEPT !.pending = Some(NoServerError),
                                 !.steps = Append(@, "_download_file_from_s3")]
          /\ pc' = "legacy_except"
       \/ /\ job' = [job EXCEPT !.pending = Some(LegacyDownloadError),
                                 !.steps = Append(@, "_download_file_from_s3")]
          /\ pc' = "legacy_except"
       \/ /\ job' = [job EXCEPT !.pdf_data = job.s3,
                                 !.steps = Append(@, "_download_file_from_s3")]
          /\ pc' = "legacy_load"
    /\ UNCHANGED <<fs, clock, default_config, calls, entry, ex, wr, req, db, events, wlog, conc>>

\* margins = _get_document_margins(document_id); config; then the
\* orchestrator is called.
LegacyJobLoad ==
    /\ pc = "legacy_load"
    /\ LET stored == IF IsNone(db) THEN None ELSE Val(db).metadata_
           margins == legacy_get_document_margins(stored)
       IN  IF margins.raised
           THEN /\ job' = [job EXCEPT !.pending = Some(Exc("TypeError", "margins")),
                                      !.steps = Append(@, "_get_document_margins")]
                /\ pc' = "legacy_except"
                /\ ex' = ex
           ELSE /\ job' = [job EXCEPT !.margins = margins.value,
                                      !.steps = @ \o <<"_get_document_margins",
                                           "extract_markdown_with_hierarchy">>]
                /\ EnterExtract(job.pdf_data, job.filename,
                                Some(JobConfig(margins.value)))
                /\ pc' = "x_check"
    /\ UNCHANGED <<fs, clock, default_config, calls, entry, wr, req, db, events, wlog, conc>>

\* result = {...}; if job: job.meta.update({"status": "completed", ...}); return result
LegacyJobResult ==
    /\ pc = "legacy_result"
    /\ job' = [job EXCEPT
                 !.result = ex.returned,
                 !.meta.status = IF job.current_job THEN Some("completed") ELSE @,
                 !.meta.text_length =
                     IF job.current_job THEN Some(Len(Val(ex.returned).markdown)) ELSE @,
                 !.returned = TRUE]
    /\ pc' = "done"
    /\ UNCHANGED <<fs, clock, default_config, calls, entry, ex, wr, req, db, events, wlog, conc>>

\* except Exception as e:
\*     if job: job.meta.update({"status": "failed", "error": str(e)}); save_meta()
LegacyJobExcept ==
    /\ pc = "legacy_except"
    /\ job' = [job EXCEPT
                 !.meta.status = IF job.current_job THEN Some("failed") ELSE @,
                 !.meta.error = IF job.current_job THEN Some(JobCaught) ELSE @]
    /\ pc' = "legacy_raise"
    /\ UNCHANGED <<fs, clock, default_config, calls, entry, ex, wr, req, db, events, wlog, conc>>

\*     raise RuntimeError(error_msg) from e
LegacyJobRaise ==
    /\ pc = "legacy_raise"
    /\ job' = [job EXCEPT !.raised = Some(LegacyJobError)]
    /\ pc' = "done"
    /\ UNCHANGED <<fs, clock, default_config, calls, entry, ex, wr, req, db, events, wlog, conc>>

\* ------------------------------------------------------------ specifications
InitCall ==
    /\ fs = <<>>
    /\ clock = 0
    /\ calls = 0
    /\ entry = "none"
    /\ pc = "idle"
    /\ ex = IdleEx
    /\ wr = IdleWr
    /\ req = IdleReq
    /\ job = IdleJob
    /\ events = <<>>
    /\ wlog = <<>>
    /\ conc = IdleConc

\* The HTTP service.
Init ==
    /\ InitCall
    /\ default_config \in DefaultConfigs
    /\ db = None

Next ==
    \/ HttpExtract
    \/ HttpExtractWithDocument
    \/ ExtractCheck
    \/ ExtractOpen
    \/ ExtractGetToc
    \/ ExtractRender
    \/ WriteStart
    \/ WriteExists
    \/ WriteText
    \/ ExtractAssemble
    \/ HttpExcept
    \/ HttpReply
    \/ Tick

Spec == Init /\ [][Next]_vars

\* Direct callers of the output writer.
InitWrite ==
    /\ InitCall
    /\ default_config = create_default_config(None, "overwrite")
    /\ db = None

NextWrite ==
    \/ WriteCall
    \/ WriteStart
    \/ WriteExists
    \/ WriteText
    \/ WriteReturn
    \/ Tick

SpecWrite == InitWrite /\ [][NextWrite]_vars

\* The background jobs over a document store.
InitJob ==
    /\ InitCall
    /\ default_config = create_default_config(None, "overwrite")
    /\ db \in Stores

NextJob ==
    \/ JobStart
    \/ JobDownload
    \/ JobLoad
    \/ ExtractCheck
    \/ ExtractOpen
    \/ ExtractGetToc
    \/ ExtractRender
    \/ WriteStart
    \/ ExtractAssemble
    \/ JobUpdate
    \/ JobFinish
    \/ JobExcept
    \/ JobRaise
    \/ LegacyJobStart
    \/ LegacyJobDownload
    \/ LegacyJobLoad
    \/ LegacyJobResult
    \/ LegacyJobExcept
    \/ LegacyJobRaise

SpecJob == InitJob /\ [][NextJob]_vars

\* Concurrent callers of the output writer over one directory.
InitRace ==
    /\ InitCall
    /\ default_config = create_default_config(None, "overwrite")
    /\ db = None

NextRace ==
    \/ \E w \in Callers : ConcCall(w)
    \/ \E w \in Callers : ConcStart(w)
    \/ \E w \in Callers : ConcExists(w)
    \/ \E w \in Callers : ConcText(w)
    \/ Tick

SpecRace == InitRace /\ [][NextRace]_vars

\* --------------------------------------------------------------------- claims
HttpEntries == {"extract", "extract_with_document"}

\* The TOC entries embedded in the bytes of the running extract call.
InputTocLen == IF IsNone(ex.file_bytes.toc) THEN 0 ELSE Len(Val(ex.file_bytes.toc))

\* C1: every extract call that returns was given a valid PDF; when the PDF's
\* embedded TOC is non-empty the returned metadata has headers_strategy "toc"
\* and toc_entries equal to the number of TOC entries, and when the TOC is
\* absent or empty it has headers_strategy "identify" and toc_entries 0. No
\* other strategy value is returned.
C1_StrategyFollowsToc ==
    ~IsNone(ex.returned) =>
        LET metadata == Val(ex.returned).metadata
        IN  /\ ex.file_bytes.kind = "pdf"
            /\ metadata.headers_strategy \in {"toc", "identify"}
            /\ InputTocLen > 0 =>
                 /\ metadata.headers_strategy = "toc"
                 /\ metadata.toc_entries = InputTocLen
            /\ InputTocLen = 0 =>
                 /\ metadata.headers_strategy = "identify"
                 /\ metadata.toc_entries = 0

\* A call returned for a PDF whose TOC has one entry, with strategy "toc".
C1_Witness ==
    /\ ~IsNone(ex.returned)
    /\ InputTocLen = 1
    /\ Val(ex.returned).metadata.headers_strategy = "toc"
    /\ Val(ex.returned).metadata.toc_entries = 1

\* The record has all four pixel fields, each a number.
HasAllPixelFields(metadata) ==
    /\ LinksPresent(metadata)
    /\ PxComplete(MarginAnalysisOf(metadata).px)
    /\ PxNumeric(MarginAnalysisOf(metadata).px)

\* Each pixel value times 0.75, truncated toward zero.
ThreeQuarters(px) == IF px >= 0 THEN (3 * px) \div 4 ELSE -((3 * (-px)) \div 4)

ExpectedMargins(metadata) ==
    LET px == MarginAnalysisOf(metadata).px
    IN  Some(<<ThreeQuarters(Val(px["left_px"])), ThreeQuarters(Val(px["top_px"])),
               ThreeQuarters(Val(px["right_px"])), ThreeQuarters(Val(px["bottom_px"]))>>)

\* C2: for the metadata record of the document the job has loaded, when its
\* margin analysis has all four pixel fields, every margin resolver of the
\* repository returns the rectangle of the pixel values times 0.75, truncated
\* toward zero.
C2_EveryResolverScales ==
    (entry = "job" /\ ~IsNone(job.document) /\ HasAllPixelFields(job.metadata)) =>
        /\ _get_document_margins(job.metadata).value = ExpectedMargins(job.metadata)
        /\ extract_document_margins(job.metadata).value = ExpectedMargins(job.metadata)
        /\ get_document_margins(Some(job.metadata)).value = ExpectedMargins(job.metadata)
        /\ legacy_get_document_margins(Some(job.metadata)).value
             = ExpectedMargins(job.metadata)

\* A link is missing, a pixel field is missing, or a stored value is malformed.
Deficient(metadata) == ~HasAllPixelFields(metadata)

\* C3: in the job, once the document is loaded and its metadata lacks a link,
\* lacks a pixel field or is malformed, the resolver has returned None without
\* raising (the job is not in its except clause on the resolver's account),
\* and the extraction was entered with, and reports, the margins (0,50,0,30).
C3_MarginFailureUsesDefaults ==
    (entry = "job" /\ ~IsNone(job.document) /\ Deficient(job.metadata)) =>
        /\ IsNone(job.margins)
        /\ IsNone(job.pending) \/ job.pending = Some(CommitError)
        /\ ex.called
        /\ Val(ex.config).margins = <<0, 50, 0, 30>>
        /\ ~IsNone(ex.cfg) => Cfg.margins = <<0, 50, 0, 30>>
        /\ ~IsNone(ex.returned) =>
             Val(ex.returned).metadata.margins = <<0, 50, 0, 30>>

\* The job extracted a document whose margin analysis holds a malformed value
\* in a complete record, and the extraction returned with the default margins.
C3_Witness ==
    /\ entry = "job"
    /\ ~IsNone(job.document)
    /\ LinksPresent(job.metadata)
    /\ PxComplete(MarginAnalysisOf(job.metadata).px)
    /\ ~PxNumeric(MarginAnalysisOf(job.metadata).px)
    /\ ~IsNone(ex.returned)
    /\ Val(ex.returned).metadata.margins = <<0, 50, 0, 30>>

\* Two write calls of the history are made under the skip policy with the
\* timestamp disabled, for the same filename, directory and hash length.
SkipPair(a, b) ==
    /\ a.config.write_mode = "skip"
    /\ b.config.write_mode = "skip"
    /\ ~a.config.safe_filename_timestamp
    /\ ~b.config.safe_filename_timestamp
    /\ ~IsNone(a.config.write_dir)
    /\ a.config.write_dir = b.config.write_dir
    /\ a.config.safe_filename_hash_len = b.config.safe_filename_hash_len
    /\ a.original_filename = b.original_filename

\* C4 as stated: of any two successive write calls under write_mode = skip
\* with the timestamp disabled, for the same filename and directory, both of
\* which returned, only the first wrote, the second returned the same path
\* and the file holds the first call's text after the second.
C4_AnyTwoSuccessiveCalls ==
    \A i \in 1..(Len(wlog) - 1) :
        LET a == wlog[i]
            b == wlog[i + 1]
        IN  (SkipPair(a, b) /\ ~a.raised /\ ~b.raised) =>
                /\ a.wrote
                /\ ~b.wrote
                /\ b.returned = a.returned
                /\ b.content = Some(a.markdown_text)

\* C4 (amended): of two successive write calls under write_mode = skip with
\* the timestamp disabled, for the same filename and directory, the first of
\* which returned: the second call returns the same path, does not write and
\* leaves the file as the first call left it; and when no file was at the
\* path before the first call, the first call wrote and the file holds the
\* first call's text after the second.
C4_SkipKeepsFirstText ==
    \A i \in 1..(Len(wlog) - 1) :
        LET a == wlog[i]
            b == wlog[i + 1]
        IN  (SkipPair(a, b) /\ ~a.raised) =>
                /\ ~b.raised
                /\ b.returned = a.returned
                /\ ~b.wrote
                /\ b.content = a.content
                /\ ~a.existed => (a.wrote /\ b.content = Some(a.markdown_text))

\* Two successive skip calls with different texts: the first wrote, the
\* second did not, and the file holds the first text.
C4_Witness ==
    /\ Len(wlog) >= 2
    /\ SkipPair(wlog[1], wlog[2])
    /\ wlog[1].wrote
    /\ ~wlog[2].wrote
    /\ wlog[1].markdown_text # wlog[2].markdown_text
    /\ wlog[2].returned = wlog[1].returned
    /\ wlog[2].content = Some(wlog[1].markdown_text)

\* The last call of the history that resolved to the path of call i.
IsLastFor(i) ==
    \A j \in (i + 1)..Len(wlog) : wlog[j].out_path # wlog[i].out_path

\* C5: under write_mode = overwrite, when no write call is running, the file
\* at a path holds the text of the last call that resolved to that path
\* (a call that returned), and that call returned the path.
C5_OverwriteKeepsLastText ==
    pc = "done" =>
        \A i \in 1..Len(wlog) :
            LET c == wlog[i]
            IN  (/\ c.config.write_mode = "overwrite"
                 /\ ~IsNone(c.out_path)
                 /\ ~c.raised
                 /\ IsLastFor(i)) =>
                    /\ c.returned = c.out_path
                    /\ Content(fs, Val(c.out_path)) = Some(c.markdown_text)

\* Two overwrite calls resolved to one path with different texts, and the
\* file holds the second text.
C5_Witness ==
    /\ pc = "done"
    /\ Len(wlog) = 2
    /\ wlog[1].config.write_mode = "overwrite"
    /\ ~IsNone(wlog[1].out_path)
    /\ wlog[1].out_path = wlog[2].out_path
    /\ wlog[1].wrote
    /\ wlog[2].wrote
    /\ wlog[1].markdown_text # wlog[2].markdown_text
    /\ Content(fs, Val(wlog[2].out_path)) = Some(wlog[2].markdown_text)

\* C6: in a call whose configuration has no output directory, the writer
\* returns None without resolving a path, no file is written and the file
\* system is as it was when the call began; the metadata the call returns
\* has output_path None.
C6_NoDirectoryNoWrite ==
    (ex.called /\ ~IsNone(ex.cfg) /\ IsNone(Cfg.write_dir)) =>
        /\ fs = ex.fs_entry
        /\ \A i \in 1..Len(events) : events[i] # "write_text"
        /\ pc \notin {"w_exists", "w_text"}
        /\ wr.done => (IsNone(wr.returned) /\ IsNone(wr.raised) /\ IsNone(wr.out_path))
        /\ ~IsNone(ex.returned) => IsNone(Val(ex.returned).metadata.output_path)

\* A call under write_mode = skip without an output directory has returned
\* its metadata.
C6_Witness ==
    /\ ex.called
    /\ ~IsNone(ex.returned)
    /\ IsNone(Cfg.write_dir)
    /\ Cfg.write_mode = "skip"
    /\ wr.done
    /\ IsNone(Val(ex.returned).metadata.output_path)

\* C7: an extract call given empty bytes makes no library call and writes no
\* file, never returns, and once past its first statement has raised
\* ValueError("Empty PDF content"), whatever configuration it was given.
C7_EmptyInputRejectedFirst ==
    (ex.called /\ ex.file_bytes.kind = "empty") =>
        /\ events = <<>>
        /\ fs = ex.fs_entry
        /\ IsNone(ex.doc)
        /\ IsNone(ex.returned)
        /\ pc \in {"x_check", "http_except", "done"}
        /\ pc # "x_check" => ex.raised = Some(EmptyPdfError)

\* An extract call with an explicit configuration and empty bytes has ended
\* in the invalid-input error.
C7_Witness ==
    /\ ex.called
    /\ ex.file_bytes.kind = "empty"
    /\ ~IsNone(ex.config)
    /\ pc = "done"
    /\ ex.raised = Some(EmptyPdfError)

\* The errors the orchestrator classifies: invalid input and render failure.
ClassifiedErrors == {EmptyPdfError, OpenError, ConversionError}

CallEnded == ex.called /\ pc \in {"http_except", "http_reply", "done"}

\* C8: every extract call that has ended either returned the pair of the
\* text and the complete metadata, or raised a classified error (invalid
\* input or render error) and returned nothing.
C8_ReturnsOrClassifiedError ==
    CallEnded =>
        \/ /\ ~IsNone(ex.returned)
           /\ IsNone(ex.raised)
           /\ Val(ex.returned).markdown = ex.md_text
           /\ Val(ex.returned).metadata.headers_strategy \in {"toc", "identify"}
        \/ /\ IsNone(ex.returned)
           /\ ~IsNone(ex.raised)
           /\ Val(ex.raised) \in ClassifiedErrors

Count(seq, x) == Cardinality({i \in 1..Len(seq) : seq[i] = x})

\* C9: within one extract call the renderer is invoked at most once and one
\* set of heading hints is built, the one of the strategy the TOC selects;
\* when the call raised the render error, no second strategy was attempted,
\* no file was written and nothing was returned.
C9_OneStrategyNoRetry ==
    ex.called =>
        /\ Count(events, "to_markdown") <= 1
        /\ Count(events, "TocHeaders") + Count(events, "IdentifyHeaders") <= 1
        /\ InputTocLen > 0 => Count(events, "IdentifyHeaders") = 0
        /\ InputTocLen = 0 => Count(events, "TocHeaders") = 0
        /\ ex.raised = Some(ConversionError) =>
             /\ Count(events, "TocHeaders") + Count(events, "IdentifyHeaders") = 1
             /\ Count(events, "write_text") = 0
             /\ fs = ex.fs_entry
             /\ IsNone(ex.returned)
             /\ pc \in {"http_except", "done"}

\* The renderer failed under the identify strategy in a call configured with
\* an output directory: the call raised the render error.
C9_Witness ==
    /\ ex.called
    /\ ex.raised = Some(ConversionError)
    /\ Count(events, "to_markdown") = 1
    /\ Count(events, "IdentifyHeaders") = 1
    /\ ~IsNone(Cfg.write_dir)
    /\ pc = "done"

\* C10: every answered HTTP request whose extraction failed on invalid input
\* (empty bytes, unparsable PDF) has status 400, and every one that failed on
\* a renderer failure or an unexpected error has status 500.
C10_StatusByErrorKind ==
    (entry \in HttpEntries /\ pc = "done" /\ req.status # 200) =>
        /\ Caught \in {EmptyPdfError, OpenError} => req.status = 400
        /\ Caught \notin {EmptyPdfError, OpenError} => req.status = 500

\* -------------------------------------------------------------- job boundary
JobEntries == {"job", "legacy_job"}

\* The job-status metadata holds the failure and its error.
FailureRecorded ==
    /\ \/ entry = "job" /\ job.meta.success = Some(FALSE)
       \/ entry = "legacy_job" /\ job.meta.status = Some("failed")
    /\ ~IsNone(job.meta.error)

\* The steps at which a job run can fail.
FailedStep ==
    ~IsNone(job.pending) \/ ~IsNone(ex.raised)

\* C11 as stated: every run of a job that ended by raising (a missing job
\* context included) has the failure recorded in the job-status metadata,
\* and the error raised is the error that was caught.
C11_EveryRaiseRecorded ==
    (entry \in JobEntries /\ pc = "done" /\ ~IsNone(job.raised)) =>
        /\ FailureRecorded
        /\ job.meta.error = job.raised

\* C11 amended: whenever a job run that found its job context has raised, the
\* failure was recorded in the job-status metadata before (with the caught
\* error; the job of extralit_ocr/jobs.py raises that same error, the legacy
\* job a RuntimeError made from it); a run without a job context raises with
\* nothing recorded; no step of the job body runs twice, and after a failed
\* step the run only records and raises.
C11_RecordedThenRaised ==
    entry \in JobEntries =>
        /\ (~IsNone(job.raised) /\ job.current_job) =>
              /\ FailedStep
              /\ FailureRecorded
              /\ job.meta.error = Some(JobCaught)
              /\ entry = "job" => job.raised = Some(JobCaught)
              /\ entry = "legacy_job" => job.raised = Some(LegacyJobError)
        /\ (~IsNone(job.raised) /\ ~job.current_job) =>
              /\ job.meta = IdleMeta
              /\ entry = "job" => job.raised = Some(NoJobError) /\ job.steps = <<>>
        /\ \A i, j \in 1..Len(job.steps) : job.steps[i] = job.steps[j] => i = j
        /\ Count(events, "open") <= 1
        /\ FailedStep =>
              /\ pc \in {"job_except", "job_raise", "legacy_except", "legacy_raise", "done"}
              /\ ~job.returned

\* A run of the job whose database commit failed has recorded the failure
\* and raised the commit error.
C11_Witness ==
    /\ entry = "job"
    /\ pc = "done"
    /\ job.raised = Some(CommitError)
    /\ job.meta.success = Some(FALSE)
    /\ job.meta.error = Some(CommitError)
    /\ job.steps = <<"get_s3_client", "download_file_content", "db.get",
                     "extract_markdown_with_hierarchy", "db.commit">>

\* ------------------------------------------------------------ artifact names
\* Two calls of the history ran the namer for the same original filename and
\* hash length.
SameNamerInput(a, b) ==
    /\ ~IsNone(a.now) /\ ~IsNone(b.now)
    /\ a.original_filename = b.original_filename
    /\ a.config.safe_filename_hash_len = b.config.safe_filename_hash_len
    /\ a.config.safe_filename_timestamp = b.config.safe_filename_timestamp
    /\ write_dir_path(a.config) = write_dir_path(b.config)

\* C12: for any two calls that named the same original filename with the same
\* hash length, with the timestamp disabled the two names are identical
\* whatever the clock read at each call; with the timestamp enabled the names
\* are identical exactly when the two calls read the same clock second.
C12_NameIgnoresClockUnlessStamped ==
    \A i, j \in 1..Len(wlog) :
        SameNamerInput(wlog[i], wlog[j]) =>
            IF wlog[i].config.safe_filename_timestamp
            THEN (wlog[i].out_path = wlog[j].out_path) <=> (wlog[i].now = wlog[j].now)
            ELSE wlog[i].out_path = wlog[j].out_path

\* Two calls with the timestamp disabled named the same file at different
\* clock seconds and got the same name.
C12_Witness ==
    \E i, j \in 1..Len(wlog) :
        /\ SameNamerInput(wlog[i], wlog[j])
        /\ ~wlog[i].config.safe_filename_timestamp
        /\ wlog[i].now # wlog[j].now
        /\ wlog[i].out_path = wlog[j].out_path

\* ------------------------------------------------------- concurrent writers
\* Callers a and b ran under the skip policy for the same path, both found
\* no file there, and both have finished without an error.
BothFoundAbsent(a, b) ==
    /\ a # b
    /\ conc[a].pc = "done" /\ conc[b].pc = "done"
    /\ Val(conc[a].wr.config).write_mode = "skip"
    /\ Val(conc[b].wr.config).write_mode = "skip"
    /\ ~IsNone(conc[a].wr.out_path)
    /\ conc[a].wr.out_path = conc[b].wr.out_path
    /\ ~conc[a].wr.existed /\ ~conc[b].wr.existed
    /\ IsNone(conc[a].wr.raised) /\ IsNone(conc[b].wr.raised)

\* C13: whenever two concurrent calls under the skip policy for the same path
\* have both found the file absent, both have written, and the write that
\* came later replaced the text the earlier one wrote: the file holds the
\* later call's text.
C13_BothAbsentBothWrite ==
    \A a, b \in Callers :
        BothFoundAbsent(a, b) =>
            /\ conc[a].wr.wrote /\ conc[b].wr.wrote
            /\ IsNone(conc[a].replaced) # IsNone(conc[b].replaced)
            /\ ~IsNone(conc[b].replaced) =>
                  /\ conc[b].replaced = Some(conc[a].wr.markdown_text)
                  /\ fs[Val(conc[b].wr.out_path)] = conc[b].wr.markdown_text

\* The race happened with two different texts: the earlier text is gone.
C13_Witness ==
    \E a, b \in Callers :
        /\ BothFoundAbsent(a, b)
        /\ conc[a].wr.markdown_text # conc[b].wr.markdown_text
        /\ conc[b].replaced = Some(conc[a].wr.markdown_text)
        /\ fs[Val(conc[b].wr.out_path)] = conc[b].wr.markdown_text

\* ------------------------------------------------------------ document store
\* The record the job commits: the loaded metadata with the extracted text.
CommittedDocument ==
    Some([metadata_ |->
            Some([job.metadata EXCEPT
                    !.text_extraction_metadata = Some(Val(ex.returned).markdown)])])

\* C14: in a run of the job, the stored document differs from what the run
\* found only once extraction has returned and the job has reached its
\* commit, and then it is the loaded metadata with the extracted text; where
\* the download, the lookup or the extraction failed the store is as the run
\* found it; and the job-status metadata reports success = True only with
\* the update committed.
C14_StoreChangesOnlyOnCommit ==
    entry = "job" =>
        /\ db # job.db_entry =>
              /\ ~IsNone(ex.returned)
              /\ IsNone(ex.raised)
              /\ job.steps # <<>> /\ job.steps[Len(job.steps)] = "db.commit"
              /\ db = CommittedDocument
        /\ (FailedStep /\ job.pending # Some(CommitError)) => db = job.db_entry
        /\ job.meta.success = Some(TRUE) =>
              /\ ~IsNone(ex.returned)
              /\ job.steps[Len(job.steps)] = "db.commit"
              /\ IsNone(job.pending)
              /\ db = CommittedDocument
              /\ Val(Val(db).metadata_).text_extraction_metadata
                   = Some(Val(ex.returned).markdown)

\* A run whose extraction failed left a stored document with metadata as it
\* was and recorded the failure.
C14_Witness ==
    /\ entry = "job"
    /\ pc = "done"
    /\ ex.raised = Some(ConversionError)
    /\ ~IsNone(job.db_entry)
    /\ ~IsNone(Val(job.db_entry).metadata_)
    /\ db = job.db_entry
    /\ job.meta.success = Some(FALSE)

====
